---------------------------- MODULE Spec2Model ----------------------------
(***************************************************************************)
(* Model of src/app.py: conversion of a document (paragraphs made of       *)
(* styled runs) into three HTML regions (head, text, faq).                 *)
(*                                                                         *)
(* Strings are sequences of tokens.  A character of document text is a     *)
(* one-character token; a piece of markup that the code emits as a literal *)
(* of an f-string ("<p>", "</span>", ...) is one token.  Python's None is  *)
(* the string "none" for enumerations and the empty sequence for an        *)
(* optional string that the code only ever tests for truthiness.           *)
(***************************************************************************)
EXTENDS Integers, Sequences, FiniteSets, TLC

(***************************************************************************)
(* Python str helpers                                                      *)
(***************************************************************************)
Whitespace == {" ", "\n", "\t"}

RECURSIVE LStrip(_)
LStrip(s) ==
    IF s # <<>> /\ Head(s) \in Whitespace THEN LStrip(Tail(s)) ELSE s

RECURSIVE RStrip(_)
RStrip(s) ==
    IF s # <<>> /\ s[Len(s)] \in Whitespace
    THEN RStrip(SubSeq(s, 1, Len(s) - 1))
    ELSE s

\* str.strip()
Strip(s) == RStrip(LStrip(s))

\* str.startswith(prefix)
StartsWith(s, prefix) ==
    Len(s) >= Len(prefix) /\ SubSeq(s, 1, Len(prefix)) = prefix

\* sub in s
Contains(s, sub) ==
    \E i \in 1..(Len(s) - Len(sub) + 1) : SubSeq(s, i, i + Len(sub) - 1) = sub

\* str.replace(c, rep) for a one-character pattern c
RECURSIVE Replace(_, _, _)
Replace(s, c, rep) ==
    IF s = <<>> THEN <<>>
    ELSE (IF Head(s) = c THEN rep ELSE <<Head(s)>>) \o Replace(Tail(s), c, rep)

\* str.split(sep) for a one-character separator: always at least one piece
RECURSIVE Split(_, _)
Split(s, sep) ==
    IF \E i \in 1..Len(s) : s[i] = sep
    THEN LET k == CHOOSE i \in 1..Len(s) :
                      s[i] = sep /\ \A j \in 1..(i - 1) : s[j] # sep
         IN  <<SubSeq(s, 1, k - 1)>> \o Split(SubSeq(s, k + 1, Len(s)), sep)
    ELSE <<s>>

\* ''.join(parts)
RECURSIVE Join(_)
Join(parts) ==
    IF parts = <<>> THEN <<>> ELSE Head(parts) \o Join(Tail(parts))

\* sep.join(parts)
RECURSIVE JoinWith(_, _)
JoinWith(parts, sep) ==
    IF parts = <<>> THEN <<>>
    ELSE IF Len(parts) = 1 THEN Head(parts)
    ELSE Head(parts) \o sep \o JoinWith(Tail(parts), sep)

\* str.lower() on the letters that occur in the style names of the model
LowerChar(c) ==
    CASE c = "L" -> "l"
      [] c = "B" -> "b"
      [] c = "N" -> "n"
      [] OTHER   -> c

Lower(s) == [i \in 1..Len(s) |-> LowerChar(s[i])]

(***************************************************************************)
(* Runs.  A run is a record                                                *)
(*   text   : the characters of run.text                                   *)
(*   bold, italic : "true", "false" or "none" (python-docx tri-state)      *)
(*   size   : run.font.size in half-points, 0 when absent                  *)
(*   name   : run.font.name, <<>> when absent                              *)
(*   color  : run.font.color.rgb as one token, <<>> when absent            *)
(*   link   : "nolink"   no w:hyperlink under the run element              *)
(*            "norid"    hyperlink markup without an r:id attribute        *)
(*            "resolved" r:id found in related_parts                       *)
(*            "unknown"  r:id not a key of related_parts                   *)
(*   target : the target_ref of the related part when link = "resolved"    *)
(***************************************************************************)
Truthy(flag) == flag = "true"

\* f"{run.font.size.pt:.2f}" for a size given in half-points
FormatPt(size) ==
    <<ToString(size \div 2), ".", IF size % 2 = 0 THEN "00" ELSE "50">>

\* lines 13: the raw-markup test on the trimmed text
IsRawMarkup(raw_text) ==
    \/ StartsWith(raw_text, <<"<", "i", "m", "g">>)
    \/ StartsWith(raw_text, <<"<", "i", "f", "r", "a", "m", "e">>)

\* line 19 raises KeyError when the relationship id is not in related_parts
RunRaises(run) ==
    /\ ~IsRawMarkup(Strip(run.text))
    /\ run.link = "unknown"

\* line 29 with '&' replaced last
EscapeHtmlAmpLast(text) ==
    Replace(Replace(Replace(text, "<", <<"&", "l", "t", ";">>),
                    ">", <<"&", "g", "t", ";">>),
            "&", <<"&", "a", "m", "p", ";">>)

\* line 29
EscapeHtml(text) ==
    Replace(Replace(Replace(text, "&", <<"&", "a", "m", "p", ";">>),
                    "<", <<"&", "l", "t", ";">>),
            ">", <<"&", "g", "t", ";">>)

NonBlank(line) == Strip(line) # <<>>

\* lines 32-34
BreakLines(text) ==
    IF \E i \in 1..Len(text) : text[i] = "\n"
    THEN LET lines == SelectSeq(Split(text, "\n"), NonBlank)
         IN  JoinWith([i \in 1..Len(lines) |-> Strip(lines[i])], <<"<br>">>)
    ELSE text

\* lines 36-57
RunStyles(run) ==
       (IF Truthy(run.bold) THEN <<"font-weight:bold;">>
                            ELSE <<"font-weight:normal;">>)
    \o (IF Truthy(run.italic) THEN <<"font-style:italic;">> ELSE <<>>)
    \o (IF run.size # 0
        THEN <<"font-size:">> \o FormatPt(run.size) \o <<"pt;">>
        ELSE <<>>)
    \o (IF run.name # <<>>
        THEN <<"font-family:'">> \o run.name \o <<"';">>
        ELSE <<>>)
    \o (IF run.color # <<>>
        THEN <<"color:#">> \o run.color \o <<";">>
        ELSE <<>>)

\* run_to_html with the hyperlink branch of lines 16-22 before line 13
run_to_html_LinkFirst(run) ==
    LET raw_text == Strip(run.text)
    IN  IF run.link = "resolved" /\ run.target # <<>>
        THEN <<"<a href=\"">> \o run.target \o <<"\" target=\"_blank\">">>
             \o Strip(run.text) \o <<"</a>">>
        ELSE IF IsRawMarkup(raw_text) THEN raw_text
        ELSE IF Strip(run.text) = <<>> THEN <<>>
        ELSE <<"<span style=\"">> \o RunStyles(run) \o <<"\">">>
             \o BreakLines(EscapeHtml(run.text)) \o <<"</span>">>

\* lines 9-58, for a run on which line 19 does not raise
run_to_html(run) ==
    LET raw_text == Strip(run.text)
    IN  IF IsRawMarkup(raw_text) THEN raw_text
        ELSE IF run.link = "resolved" /\ run.target # <<>>
        THEN <<"<a href=\"">> \o run.target \o <<"\" target=\"_blank\">">>
             \o Strip(run.text) \o <<"</a>">>
        ELSE IF Strip(run.text) = <<>> THEN <<>>
        ELSE <<"<span style=\"">> \o RunStyles(run) \o <<"\">">>
             \o BreakLines(EscapeHtml(run.text)) \o <<"</span>">>


(***************************************************************************)
(* Paragraphs.  A paragraph is a record                                    *)
(*   runs  : the sequence of its runs                                      *)
(*   style : para.style.name                                               *)
(*   numPr : "none" (no w:numPr), "empty" (a w:numPr element without       *)
(*           children, which lxml treats as false) or "children"           *)
(*   ilvl  : the w:ilvl value, -1 when the element is absent               *)
(***************************************************************************)
\* python-docx Paragraph.text: the run texts concatenated
ParaText(para) == Join([i \in 1..Len(para.runs) |-> para.runs[i].text])

\* line 69; a glyph outside ASCII is the token naming its code point
BulletSymbols == {"U+2022", "-", "U+2023", "U+25E6", "U+25AA"}

\* lines 61-87; the list type, "none" standing for (False, None)
detect_list_type(para) ==
    LET style_name == Lower(para.style)
        first_text == Strip(ParaText(para))
    IN  IF first_text # <<>> /\ first_text[1] \in BulletSymbols THEN "ul"
        ELSE IF Contains(style_name, <<"b", "u", "l", "l", "e", "t">>) THEN "ul"
        ELSE IF Contains(style_name, <<"n", "u", "m", "b", "e", "r">>) THEN "ol"
        ELSE IF para.numPr = "children"
        THEN (IF (IF para.ilvl = -1 THEN 0 ELSE para.ilvl) = 0
              THEN "ol" ELSE "ul")
        ELSE "none"

\* a run of the paragraph makes run_to_html raise
ParaRaises(para) == \E i \in 1..Len(para.runs) : RunRaises(para.runs[i])

\* line 90
RunsHtml(para) == Join([i \in 1..Len(para.runs) |-> run_to_html(para.runs[i])])

\* lines 97-101
ColorStyle(para) ==
    IF para.runs # <<>> /\ para.runs[1].color # <<>>
    THEN <<"style=\"color:#">> \o para.runs[1].color \o <<";\"">>
    ELSE <<>>

\* lines 89-106: the pair (html, list type)
para_to_html(para) ==
    LET runs_html == RunsHtml(para)
        detected == detect_list_type(para)
    IN  IF Strip(runs_html) = <<>> THEN [html |-> <<>>, list_type |-> "none"]
        ELSE IF detected # "none"
        THEN [html |-> <<"<li ">> \o ColorStyle(para) \o <<">">> \o runs_html
                       \o <<"</li>">>,
              list_type |-> detected]
        ELSE [html |-> <<"<p>">> \o runs_html \o <<"</p>">>,
              list_type |-> "none"]

\* lines 108-111
wrap_list(items, ltype) ==
    IF ltype = "none" \/ items = <<>> THEN Join(items)
    ELSE <<"<" \o ltype \o ">">> \o Join(items) \o <<"</" \o ltype \o ">">>

\* line 126: the sentinel test
SentinelText == <<"#", "#", "#", "#", "#">>

IsSentinelPara(para) == Strip(ParaText(para)) = SentinelText

\* line 123
IsEmptyPara(para) == Strip(ParaText(para)) = <<>> /\ para.runs = <<>>

\* IsBold without the filter of line 152 on runs with text
IsBoldAnyRun(para) ==
    \E i \in 1..Len(para.runs) : Truthy(para.runs[i].bold)

\* line 152
IsBold(para) ==
    \E i \in 1..Len(para.runs) :
        Strip(para.runs[i].text) # <<>> /\ Truthy(para.runs[i].bold)

(***************************************************************************)
(* Inputs                                                                  *)
(***************************************************************************)
MaxParas == 5
MaxFaq == 5

MkRun(text, bold) ==
    [text |-> text, bold |-> bold, italic |-> "none", size |-> 0,
     name |-> <<>>, color |-> <<>>, link |-> "nolink", target |-> <<>>]

MkPara(runs, style) ==
    [runs |-> runs, style |-> style, numPr |-> "none", ilvl |-> -1]

StyleNormal == <<"N", "o", "r", "m", "a", "l">>
StyleListNumber == <<"L", "i", "s", "t", " ", "N", "u", "m", "b", "e", "r">>

\* a paragraph without runs, skipped at line 123
ParaNoRuns == MkPara(<<>>, StyleNormal)
\* a bold whitespace-only run: renders empty, skipped at line 135
ParaBlank == MkPara(<<MkRun(<<" ">>, "true")>>, StyleNormal)
ParaSentinel == MkPara(<<MkRun(SentinelText, "none")>>, StyleNormal)
ParaBold == MkPara(<<MkRun(<<"q">>, "true")>>, StyleNormal)
\* unordered by its bullet glyph
ParaUl == MkPara(<<MkRun(<<"-", "x">>, "none")>>, StyleNormal)
\* ordered by its style name
ParaOl == MkPara(<<MkRun(<<"y">>, "false")>>, StyleListNumber)
\* a plain paragraph: a bold run without text, then a run that is not bold
ParaMixed ==
    MkPara(<<MkRun(<<" ">>, "true"), MkRun(<<"r">>, "false")>>, StyleNormal)
\* a hyperlink whose relationship id is not in related_parts
ParaBroken ==
    MkPara(<<[MkRun(<<"z">>, "none") EXCEPT !.link = "unknown"]>>, StyleNormal)

ParaInputs ==
    {ParaNoRuns, ParaBlank, ParaSentinel, ParaBold, ParaUl, ParaOl,
     ParaMixed, ParaBroken}

(***************************************************************************)
(* docx_to_html_sections, lines 113-180                                    *)
(*   doc             the paragraphs the loop of line 121 has fetched       *)
(*   pc              "loop" (121-156), "pair" (164-172), "done", "raised"  *)
(*   sections        [0] head, [1] text, [2] the tagged FAQ items          *)
(*   item_i          how many items the loop of line 164 has consumed      *)
(*   result          the returned dictionary, once pc = "done"             *)
(* handle_upload, lines 182-202                                            *)
(*   request         the multipart request: has_file, filename             *)
(*   hpc             the handler's position                                *)
(*   tmp_file        "none", "open" or "closed" while the file of line 191 *)
(*                   exists, "removed" after line 200                      *)
(*   response        the status and body the handler returns               *)
(* A caller that converts the same document again                          *)
(*   call            "only", or which conversion of the caller is running: *)
(*                   "first", "other" (another document) or "repeat"       *)
(*   calls           how many conversions have returned or raised          *)
(*   first_doc       the document of the first conversion                  *)
(*   first_out       what the first conversion returned or raised          *)
(* A call of one of the pure functions of lines 9-111                      *)
(*   arg, ret        its argument and what it returned or raised           *)
(***************************************************************************)
VARIABLES doc, pc, current_section, sections, list_buffer, list_type,
          item_i, faq_pairs, current_q, result,
          request, hpc, tmp_file, response,
          call, calls, first_doc, first_out,
          arg, ret

conv_vars == <<doc, pc, current_section, sections, list_buffer, list_type,
               item_i, faq_pairs, current_q, result>>

upload_vars == <<request, hpc, tmp_file, response>>

caller_vars == <<call, calls, first_doc, first_out>>

fn_vars == <<arg, ret>>

vars == <<conv_vars, upload_vars, caller_vars, fn_vars>>

NoResult == [head |-> <<>>, text |-> <<>>, faq |-> <<>>]

NoRequest == [has_file |-> FALSE, filename |-> <<>>]

NoResponse == [status |-> 0, error |-> "", result |-> NoResult]

\* docx_to_html_sections called directly, not through the route
NoUpload ==
    /\ request = NoRequest
    /\ hpc = "none"
    /\ tmp_file = "none"
    /\ response = NoResponse

NoOutcome == [pc |-> "none", result |-> NoResult]

NoCaller ==
    /\ call = "only"
    /\ calls = 0
    /\ first_doc = <<>>
    /\ first_out = NoOutcome

NoCall ==
    /\ arg = <<>>
    /\ ret = [kind |-> "pending", value |-> <<>>]

\* lines 115-119, 162-163
Init ==
    /\ doc = <<>>
    /\ pc = "loop"
    /\ current_section = 0
    /\ sections = [k \in 0..2 |-> <<>>]
    /\ list_buffer = <<>>
    /\ list_type = "none"
    /\ item_i = 0
    /\ faq_pairs = <<>>
    /\ current_q = <<>>
    /\ result = NoResult
    /\ NoUpload
    /\ NoCaller
    /\ NoCall

\* line 121: the iterator yields para
Fetch(para) ==
    /\ pc = "loop"
    /\ Len(doc) < MaxParas
    /\ doc' = Append(doc, para)

\* the locals of docx_to_html_sections are all a step of it can change
OutsideUnchanged == UNCHANGED <<upload_vars, caller_vars, fn_vars>>

PairingUnchanged ==
    /\ UNCHANGED <<item_i, faq_pairs, current_q, result>>
    /\ OutsideUnchanged

\* lines 123-124
SkipEmpty(para) ==
    /\ Fetch(para)
    /\ IsEmptyPara(para)
    /\ UNCHANGED <<pc, current_section, sections, list_buffer, list_type>>
    /\ PairingUnchanged

\* Sentinel with the test of line 127 reduced to "if list_buffer"
SentinelFlushAlways(para) ==
    /\ Fetch(para)
    /\ ~IsEmptyPara(para)
    /\ IsSentinelPara(para)
    /\ IF list_buffer # <<>>
       THEN /\ sections' = [sections EXCEPT
                   ![1] = Append(@, wrap_list(list_buffer, list_type))]
            /\ list_buffer' = <<>>
            /\ list_type' = "none"
       ELSE UNCHANGED <<sections, list_buffer, list_type>>
    /\ current_section' = current_section + 1
    /\ UNCHANGED pc
    /\ PairingUnchanged

\* Sentinel with line 131 indented into the flush of lines 127-130
SentinelAdvanceInFlush(para) ==
    /\ Fetch(para)
    /\ ~IsEmptyPara(para)
    /\ IsSentinelPara(para)
    /\ IF list_buffer # <<>> /\ current_section = 1
       THEN /\ sections' = [sections EXCEPT
                   ![1] = Append(@, wrap_list(list_buffer, list_type))]
            /\ list_buffer' = <<>>
            /\ list_type' = "none"
            /\ current_section' = current_section + 1
       ELSE UNCHANGED <<sections, list_buffer, list_type, current_section>>
    /\ UNCHANGED pc
    /\ PairingUnchanged

\* Sentinel without the flush of lines 127-130
SentinelNoFlush(para) ==
    /\ Fetch(para)
    /\ ~IsEmptyPara(para)
    /\ IsSentinelPara(para)
    /\ current_section' = current_section + 1
    /\ UNCHANGED <<pc, sections, list_buffer, list_type>>
    /\ PairingUnchanged

\* lines 126-132
Sentinel(para) ==
    /\ Fetch(para)
    /\ ~IsEmptyPara(para)
    /\ IsSentinelPara(para)
    /\ IF list_buffer # <<>> /\ current_section = 1
       THEN /\ sections' = [sections EXCEPT
                   ![1] = Append(@, wrap_list(list_buffer, list_type))]
            /\ list_buffer' = <<>>
            /\ list_type' = "none"
       ELSE UNCHANGED <<sections, list_buffer, list_type>>
    /\ current_section' = current_section + 1
    /\ UNCHANGED pc
    /\ PairingUnchanged

\* a paragraph that reaches line 134
Rendered(para) == ~IsEmptyPara(para) /\ ~IsSentinelPara(para)

\* line 134 raises (KeyError of line 19): the call ends without a result
RenderRaises(para) ==
    /\ Fetch(para)
    /\ Rendered(para)
    /\ ParaRaises(para)
    /\ pc' = "raised"
    /\ UNCHANGED <<current_section, sections, list_buffer, list_type>>
    /\ PairingUnchanged

\* lines 134-136
SkipBlank(para) ==
    /\ Fetch(para)
    /\ Rendered(para)
    /\ ~ParaRaises(para)
    /\ para_to_html(para).html = <<>>
    /\ UNCHANGED <<pc, current_section, sections, list_buffer, list_type>>
    /\ PairingUnchanged

\* a paragraph that reaches line 138
Routed(para) ==
    Rendered(para) /\ ~ParaRaises(para) /\ para_to_html(para).html # <<>>

\* ListItem without the flush of lines 140-142 when the list type changes
ListItemNoFlush(para) ==
    /\ Fetch(para)
    /\ Routed(para)
    /\ current_section <= 1
    /\ para_to_html(para).list_type # "none"
    /\ list_buffer' = Append(list_buffer, para_to_html(para).html)
    /\ list_type' = para_to_html(para).list_type
    /\ UNCHANGED <<pc, current_section, sections>>
    /\ PairingUnchanged

\* lines 138-144
ListItem(para) ==
    /\ Fetch(para)
    /\ Routed(para)
    /\ current_section <= 1
    /\ para_to_html(para).list_type # "none"
    /\ LET html == para_to_html(para).html
           detected_list_type == para_to_html(para).list_type
       IN  IF list_type # detected_list_type /\ list_buffer # <<>>
           THEN /\ sections' = [sections EXCEPT
                       ![1] = Append(@, wrap_list(list_buffer, list_type))]
                /\ list_buffer' = <<html>>
                /\ list_type' = detected_list_type
           ELSE /\ list_buffer' = Append(list_buffer, html)
                /\ list_type' = detected_list_type
                /\ UNCHANGED sections
    /\ UNCHANGED <<pc, current_section>>
    /\ PairingUnchanged

\* PlainPara with line 150 before the flush of lines 146-149
PlainParaAppendFirst(para) ==
    /\ Fetch(para)
    /\ Routed(para)
    /\ current_section <= 1
    /\ para_to_html(para).list_type = "none"
    /\ LET html == para_to_html(para).html
           appended == [sections EXCEPT ![current_section] = Append(@, html)]
       IN  /\ sections' = IF list_buffer # <<>>
                          THEN [appended EXCEPT
                                  ![1] = Append(@, wrap_list(list_buffer, list_type))]
                          ELSE appended
           /\ list_buffer' = <<>>
           /\ list_type' = IF list_buffer # <<>> THEN "none" ELSE list_type
    /\ UNCHANGED <<pc, current_section>>
    /\ PairingUnchanged

\* lines 138, 145-150
PlainPara(para) ==
    /\ Fetch(para)
    /\ Routed(para)
    /\ current_section <= 1
    /\ para_to_html(para).list_type = "none"
    /\ LET html == para_to_html(para).html
           flushed == IF list_buffer # <<>>
                      THEN [sections EXCEPT
                              ![1] = Append(@, wrap_list(list_buffer, list_type))]
                      ELSE sections
       IN  /\ sections' = [flushed EXCEPT ![current_section] = Append(@, html)]
           /\ list_buffer' = <<>>
           /\ list_type' = IF list_buffer # <<>> THEN "none" ELSE list_type
    /\ UNCHANGED <<pc, current_section>>
    /\ PairingUnchanged

\* lines 151-156
FaqItem(para) ==
    /\ Fetch(para)
    /\ Routed(para)
    /\ current_section = 2
    /\ sections' = [sections EXCEPT
           ![2] = Append(@, [type |-> IF IsBold(para) THEN "question"
                                                        ELSE "answer",
                             html |-> para_to_html(para).html])]
    /\ UNCHANGED <<pc, current_section, list_buffer, list_type>>
    /\ PairingUnchanged

\* Unrouted with line 151 as a bare else: sections past FAQ feed the FAQ items
UnroutedAsFaq(para) ==
    /\ Fetch(para)
    /\ Routed(para)
    /\ current_section > 2
    /\ sections' = [sections EXCEPT
           ![2] = Append(@, [type |-> IF IsBold(para) THEN "question"
                                                        ELSE "answer",
                             html |-> para_to_html(para).html])]
    /\ UNCHANGED <<pc, current_section, list_buffer, list_type>>
    /\ PairingUnchanged

\* lines 138, 151: neither branch is taken once current_section exceeds 2
Unrouted(para) ==
    /\ Fetch(para)
    /\ Routed(para)
    /\ current_section > 2
    /\ UNCHANGED <<pc, current_section, sections, list_buffer, list_type>>
    /\ PairingUnchanged

\* lines 158-163: the paragraphs are exhausted
EndOfStream ==
    /\ pc = "loop"
    /\ sections' = IF list_buffer # <<>> /\ current_section = 1
                   THEN [sections EXCEPT
                           ![1] = Append(@, wrap_list(list_buffer, list_type))]
                   ELSE sections
    /\ pc' = "pair"
    /\ UNCHANGED <<doc, current_section, list_buffer, list_type>>
    /\ PairingUnchanged

SplitterUnchanged ==
    /\ UNCHANGED <<doc, current_section, sections, list_buffer, list_type>>
    /\ OutsideUnchanged

\* line 164: the next item of sections[2]
NextItem ==
    /\ pc = "pair"
    /\ item_i < Len(sections[2])
    /\ item_i' = item_i + 1

\* PairQuestion without lines 166-167: a pending question is overwritten
PairQuestionDropPending ==
    /\ NextItem
    /\ sections[2][item_i + 1].type = "question"
    /\ current_q' = sections[2][item_i + 1].html
    /\ UNCHANGED <<pc, result, faq_pairs>>
    /\ SplitterUnchanged

\* lines 165-168
PairQuestion ==
    /\ NextItem
    /\ sections[2][item_i + 1].type = "question"
    /\ faq_pairs' = IF current_q # <<>>
                    THEN Append(faq_pairs,
                                [question |-> current_q, answer |-> <<>>])
                    ELSE faq_pairs
    /\ current_q' = sections[2][item_i + 1].html
    /\ UNCHANGED <<pc, result>>
    /\ SplitterUnchanged

\* PairAnswer without line 172: the question stays pending after its answer
PairAnswerKeepPending ==
    /\ NextItem
    /\ sections[2][item_i + 1].type = "answer"
    /\ faq_pairs' = IF current_q # <<>>
                    THEN Append(faq_pairs,
                                [question |-> current_q,
                                 answer |-> sections[2][item_i + 1].html])
                    ELSE faq_pairs
    /\ UNCHANGED <<pc, result, current_q>>
    /\ SplitterUnchanged

\* lines 169-172
PairAnswer ==
    /\ NextItem
    /\ sections[2][item_i + 1].type = "answer"
    /\ IF current_q # <<>>
       THEN /\ faq_pairs' = Append(faq_pairs,
                                   [question |-> current_q,
                                    answer |-> sections[2][item_i + 1].html])
            /\ current_q' = <<>>
       ELSE UNCHANGED <<faq_pairs, current_q>>
    /\ UNCHANGED <<pc, result>>
    /\ SplitterUnchanged

\* lines 173-180
Return ==
    /\ pc = "pair"
    /\ item_i = Len(sections[2])
    /\ LET pairs == IF current_q # <<>>
                    THEN Append(faq_pairs,
                                [question |-> current_q, answer |-> <<>>])
                    ELSE faq_pairs
       IN  /\ faq_pairs' = pairs
           /\ result' = [head |-> Strip(Join(sections[0])),
                         text |-> Strip(Join(sections[1])),
                         faq  |-> pairs]
    /\ pc' = "done"
    /\ UNCHANGED <<item_i, current_q>>
    /\ SplitterUnchanged

Next ==
    \/ \E para \in ParaInputs : SkipEmpty(para)
    \/ \E para \in ParaInputs : Sentinel(para)
    \/ \E para \in ParaInputs : RenderRaises(para)
    \/ \E para \in ParaInputs : SkipBlank(para)
    \/ \E para \in ParaInputs : ListItem(para)
    \/ \E para \in ParaInputs : PlainPara(para)
    \/ \E para \in ParaInputs : FaqItem(para)
    \/ \E para \in ParaInputs : Unrouted(para)
    \/ EndOfStream
    \/ PairQuestion
    \/ PairAnswer
    \/ Return

Spec == Init /\ [][Next]_vars

(***************************************************************************)
(* FAQ pairing on its own (lines 161-180): the call stands at line 162     *)
(* after a document of two sentinels followed by FAQ paragraphs.           *)
(***************************************************************************)
QuestionTexts == {"q", "r", "s"}
AnswerTexts == {"a", "b"}

FaqParaInputs ==
    {MkPara(<<MkRun(<<c>>, "true")>>, StyleNormal) : c \in QuestionTexts}
    \cup {MkPara(<<MkRun(<<c>>, "false")>>, StyleNormal) : c \in AnswerTexts}

\* the item line 153 appends for a paragraph
FaqItemOf(para) ==
    [type |-> IF IsBold(para) THEN "question" ELSE "answer",
     html |-> para_to_html(para).html]

SeqsUpTo(S, n) == UNION {[1..k -> S] : k \in 0..n}

InitFaq ==
    \E ps \in SeqsUpTo(FaqParaInputs, MaxFaq) :
        /\ doc = <<ParaSentinel, ParaSentinel>> \o ps
        /\ pc = "pair"
        /\ current_section = 2
        /\ sections = [k \in 0..2 |->
                          IF k = 2 THEN [i \in 1..Len(ps) |-> FaqItemOf(ps[i])]
                                   ELSE <<>>]
        /\ list_buffer = <<>>
        /\ list_type = "none"
        /\ item_i = 0
        /\ faq_pairs = <<>>
        /\ current_q = <<>>
        /\ result = NoResult
        /\ NoUpload
        /\ NoCaller
        /\ NoCall

NextFaq ==
    \/ PairQuestion
    \/ PairAnswer
    \/ Return

SpecFaq == InitFaq /\ [][NextFaq]_vars

(***************************************************************************)
(* One call of run_to_html, para_to_html or detect_list_type on an         *)
(* argument drawn from a bounded set; nothing is being converted.          *)
(***************************************************************************)
NoConversion ==
    /\ doc = <<>>
    /\ pc = "none"
    /\ current_section = 0
    /\ sections = [k \in 0..2 |-> <<>>]
    /\ list_buffer = <<>>
    /\ list_type = "none"
    /\ item_i = 0
    /\ faq_pairs = <<>>
    /\ current_q = <<>>
    /\ result = NoResult

Pending == [kind |-> "pending", value |-> <<>>]
Returned(value) == [kind |-> "returned", value |-> value]
Raised == [kind |-> "raised", value |-> <<>>]

CallUnchanged == UNCHANGED <<conv_vars, upload_vars, caller_vars, arg>>

MaxRunLen == 2

RunChars == {"a", "&", "<", ">", " ", "\n"}

ExampleText == <<"a", " ", "&", " ", "b", " ", "<", " ", "c">>
ImgText == <<" ", "<", "i", "m", "g", " ", "s", "r", "c", "=", "x", ">", " ">>
IframeText == <<"<", "i", "f", "r", "a", "m", "e", ">", "&", "\n">>
ImText == <<"<", "i", "m", ">">>

RunTexts ==
    SeqsUpTo(RunChars, MaxRunLen) \cup {ExampleText, ImgText, IframeText, ImText}

Url == <<"h", ":", "u", "&", "v">>

\* the hyperlink markup of a run and what line 19 finds for it
LinkInputs ==
    {[link |-> "nolink", target |-> <<>>], [link |-> "norid", target |-> <<>>],
     [link |-> "unknown", target |-> <<>>], [link |-> "resolved", target |-> <<>>],
     [link |-> "resolved", target |-> Url]}

RunInputs ==
    {[text |-> t, bold |-> b, italic |-> i, size |-> z, name |-> n,
      color |-> c, link |-> l.link, target |-> l.target] :
        t \in RunTexts, b \in {"true", "false", "none"}, i \in {"true", "none"},
        z \in {0, 21}, n \in {<<>>, <<"Arial">>},
        c \in {<<>>, <<"FF0000">>}, l \in LinkInputs}

InitRun ==
    /\ NoConversion
    /\ NoUpload
    /\ NoCaller
    /\ arg \in RunInputs
    /\ ret = Pending

\* lines 9-58 return
RunReturns ==
    /\ ret = Pending
    /\ ~RunRaises(arg)
    /\ ret' = Returned(run_to_html(arg))
    /\ CallUnchanged

\* line 19 raises
RunFails ==
    /\ ret = Pending
    /\ RunRaises(arg)
    /\ ret' = Raised
    /\ CallUnchanged

NextRun ==
    \/ RunReturns
    \/ RunFails

SpecRun == InitRun /\ [][NextRun]_vars

MaxParaRuns == 2

ParaRunInputs ==
    {[text |-> t, bold |-> b, italic |-> "none", size |-> 0, name |-> <<>>,
      color |-> <<>>, link |-> l.link, target |-> l.target] :
        t \in {<<>>, <<" ">>, <<"x">>}, b \in {"true", "none"},
        l \in LinkInputs \ {[link |-> "resolved", target |-> <<>>]}}

RenderInputs ==
    {MkPara(rs, style) :
        rs \in SeqsUpTo(ParaRunInputs, MaxParaRuns),
        style \in {StyleNormal, StyleListNumber}}

InitPara ==
    /\ NoConversion
    /\ NoUpload
    /\ NoCaller
    /\ arg \in RenderInputs
    /\ ret = Pending

\* lines 89-106 return
ParaReturns ==
    /\ ret = Pending
    /\ ~ParaRaises(arg)
    /\ ret' = Returned(para_to_html(arg))
    /\ CallUnchanged

\* line 90: a run_to_html call raises
ParaFails ==
    /\ ret = Pending
    /\ ParaRaises(arg)
    /\ ret' = Raised
    /\ CallUnchanged

NextPara ==
    \/ ParaReturns
    \/ ParaFails

SpecPara == InitPara /\ [][NextPara]_vars

MaxIlvl == 1

StyleListBullet == <<"L", "i", "s", "t", " ", "B", "u", "l", "l", "e", "t">>
StyleBulletNumber == <<"B", "u", "l", "l", "e", "t", " ", "N", "u", "m", "b", "e", "r">>

\* the numbering properties of a paragraph: w:numPr and its w:ilvl child
NumberingInputs ==
    {[numPr |-> "none", ilvl |-> -1], [numPr |-> "empty", ilvl |-> -1]}
    \cup {[numPr |-> "children", ilvl |-> v] : v \in -1..MaxIlvl}

ListTexts ==
    {<<>>, <<"x">>, <<"-">>, <<" ", "-", "x">>, <<"U+2022", "x">>,
     <<"x", "-">>, <<"U+25AA">>}

ListInputs ==
    {[runs |-> <<MkRun(t, "none")>>, style |-> style,
      numPr |-> n.numPr, ilvl |-> n.ilvl] :
        t \in ListTexts,
        style \in {StyleNormal, StyleListBullet, StyleListNumber,
                   StyleBulletNumber},
        n \in NumberingInputs}

InitList ==
    /\ NoConversion
    /\ NoUpload
    /\ NoCaller
    /\ arg \in ListInputs
    /\ ret = Pending

\* lines 61-87
DetectReturns ==
    /\ ret = Pending
    /\ ret' = Returned(detect_list_type(arg))
    /\ CallUnchanged

NextList == DetectReturns

SpecList == InitList /\ [][NextList]_vars

(***************************************************************************)
(* A caller that converts a document, possibly another document, and then  *)
(* the first document again.  Every call starts at line 114 with locals    *)
(* of its own.                                                             *)
(***************************************************************************)
MaxTwice == 4

TwiceInputs ==
    {ParaNoRuns, ParaBlank, ParaSentinel, ParaBold, ParaUl, ParaOl, ParaBroken}

\* the document of the conversion in between: it ends with a list buffered
OtherDoc == <<ParaOl, ParaSentinel, ParaUl>>

InitTwice ==
    /\ doc = <<>>
    /\ pc = "loop"
    /\ current_section = 0
    /\ sections = [k \in 0..2 |-> <<>>]
    /\ list_buffer = <<>>
    /\ list_type = "none"
    /\ item_i = 0
    /\ faq_pairs = <<>>
    /\ current_q = <<>>
    /\ result = NoResult
    /\ NoUpload
    /\ call = "first"
    /\ calls = 0
    /\ first_doc = <<>>
    /\ first_out = NoOutcome
    /\ NoCall

\* what a conversion hands to its caller: a return or a raise
Outcome == [pc |-> pc, result |-> result]

\* the document the running conversion reads
Script == IF call = "repeat" THEN first_doc ELSE OtherDoc

\* line 121 yields para
Yields(para) ==
    IF call = "first" THEN Len(doc) < MaxTwice
    ELSE Len(doc) < Len(Script) /\ para = Script[Len(doc) + 1]

\* line 121 is exhausted
Exhausted == call = "first" \/ Len(doc) = Len(Script)

\* a call whose list_buffer outlives the call before it
NewCallKeepBuffer(which) ==
    /\ pc \in {"done", "raised"}
    /\ call' = which
    /\ calls' = calls + 1
    /\ first_doc' = IF call = "first" THEN doc ELSE first_doc
    /\ first_out' = IF call = "first" THEN Outcome ELSE first_out
    /\ doc' = <<>>
    /\ pc' = "loop"
    /\ current_section' = 0
    /\ sections' = [k \in 0..2 |-> <<>>]
    /\ list_type' = "none"
    /\ item_i' = 0
    /\ faq_pairs' = <<>>
    /\ current_q' = <<>>
    /\ result' = NoResult
    /\ UNCHANGED <<list_buffer, upload_vars, fn_vars>>

\* the previous call is over; lines 114-119 and 162-163 of the next one
NewCall(which) ==
    /\ pc \in {"done", "raised"}
    /\ call' = which
    /\ calls' = calls + 1
    /\ first_doc' = IF call = "first" THEN doc ELSE first_doc
    /\ first_out' = IF call = "first" THEN Outcome ELSE first_out
    /\ doc' = <<>>
    /\ pc' = "loop"
    /\ current_section' = 0
    /\ sections' = [k \in 0..2 |-> <<>>]
    /\ list_buffer' = <<>>
    /\ list_type' = "none"
    /\ item_i' = 0
    /\ faq_pairs' = <<>>
    /\ current_q' = <<>>
    /\ result' = NoResult
    /\ UNCHANGED <<upload_vars, fn_vars>>

StartOther ==
    /\ call = "first"
    /\ NewCall("other")

StartRepeat ==
    /\ call \in {"first", "other"}
    /\ NewCall("repeat")

NextTwice ==
    \/ \E para \in TwiceInputs : Yields(para) /\ SkipEmpty(para)
    \/ \E para \in TwiceInputs : Yields(para) /\ Sentinel(para)
    \/ \E para \in TwiceInputs : Yields(para) /\ RenderRaises(para)
    \/ \E para \in TwiceInputs : Yields(para) /\ SkipBlank(para)
    \/ \E para \in TwiceInputs : Yields(para) /\ ListItem(para)
    \/ \E para \in TwiceInputs : Yields(para) /\ PlainPara(para)
    \/ \E para \in TwiceInputs : Yields(para) /\ FaqItem(para)
    \/ \E para \in TwiceInputs : Yields(para) /\ Unrouted(para)
    \/ Exhausted /\ EndOfStream
    \/ PairQuestion
    \/ PairAnswer
    \/ Return
    \/ StartOther
    \/ StartRepeat

SpecTwice == InitTwice /\ [][NextTwice]_vars

(***************************************************************************)
(* handle_upload, lines 182-202: one request, and the conversion it runs   *)
(***************************************************************************)
MaxUpload == 4

\* s.endswith(suffix)
EndsWith(s, suffix) ==
    /\ Len(s) >= Len(suffix)
    /\ SubSeq(s, Len(s) - Len(suffix) + 1, Len(s)) = suffix

Docx == <<".", "d", "o", "c", "x">>

FilenameInputs ==
    {<<>>, Docx, <<"a">> \o Docx, <<"a", ".", "d", "o", "c">>,
     <<"a">> \o Docx \o <<".", "p", "d", "f">>, <<"a", ".", "D", "O", "C", "X">>,
     <<"d", "o", "c", "x">>}

\* a request without the part 'file', or with it and its filename
RequestInputs ==
    {NoRequest} \cup {[has_file |-> TRUE, filename |-> f] : f \in FilenameInputs}

InitUpload ==
    /\ NoConversion
    /\ request \in RequestInputs
    /\ hpc = "start"
    /\ tmp_file = "none"
    /\ response = NoResponse
    /\ NoCaller
    /\ NoCall

HandlerOnly == UNCHANGED <<conv_vars, caller_vars, fn_vars, request>>

\* the filename test of line 188 as a substring test
AllowedNameContains(filename) == Contains(filename, Docx)

\* line 188
AllowedName(filename) == EndsWith(filename, Docx)

\* lines 184-185
RejectMissing ==
    /\ hpc = "start"
    /\ ~request.has_file
    /\ response' = [status |-> 400, error |-> "File missing", result |-> NoResult]
    /\ hpc' = "returned"
    /\ UNCHANGED tmp_file
    /\ HandlerOnly

\* lines 187-189
RejectName ==
    /\ hpc = "start"
    /\ request.has_file
    /\ ~AllowedName(request.filename)
    /\ response' = [status |-> 400, error |-> "Only .docx allowed",
                    result |-> NoResult]
    /\ hpc' = "returned"
    /\ UNCHANGED tmp_file
    /\ HandlerOnly

\* line 191: the file exists from here on (delete=False)
CreateTmp ==
    /\ hpc = "start"
    /\ request.has_file
    /\ AllowedName(request.filename)
    /\ tmp_file' = "open"
    /\ hpc' = "save"
    /\ UNCHANGED response
    /\ HandlerOnly

\* lines 193-194
SaveOk ==
    /\ hpc = "save"
    /\ tmp_file' = "closed"
    /\ hpc' = "convert"
    /\ UNCHANGED response
    /\ HandlerOnly

\* line 193 raises; line 194 is not reached
SaveRaises ==
    /\ hpc = "save"
    /\ hpc' = "except"
    /\ UNCHANGED <<tmp_file, response>>
    /\ HandlerOnly

\* line 195 calls docx_to_html_sections and line 114 opens the document
DocumentOpens ==
    /\ hpc = "convert"
    /\ hpc' = "converting"
    /\ pc' = "loop"
    /\ UNCHANGED <<doc, current_section, sections, list_buffer, list_type,
                   item_i, faq_pairs, current_q, result>>
    /\ UNCHANGED <<request, tmp_file, response, caller_vars, fn_vars>>

\* line 114 raises: the upload is not a Word document
DocumentRaises ==
    /\ hpc = "convert"
    /\ hpc' = "except"
    /\ pc' = "raised"
    /\ UNCHANGED <<doc, current_section, sections, list_buffer, list_type,
                   item_i, faq_pairs, current_q, result>>
    /\ UNCHANGED <<request, tmp_file, response, caller_vars, fn_vars>>

\* line 195: docx_to_html_sections returns
ConversionReturns ==
    /\ hpc = "converting"
    /\ pc = "done"
    /\ hpc' = "finally"
    /\ UNCHANGED <<tmp_file, response>>
    /\ HandlerOnly

\* line 195: docx_to_html_sections raises
ConversionRaises ==
    /\ hpc = "converting"
    /\ pc = "raised"
    /\ hpc' = "except"
    /\ UNCHANGED <<tmp_file, response>>
    /\ HandlerOnly

\* lines 196-197: the value to return is built, then the finally clause runs
Except ==
    /\ hpc = "except"
    /\ response' = [status |-> 500, error |-> "Failed to parse",
                    result |-> NoResult]
    /\ hpc' = "finally"
    /\ UNCHANGED tmp_file
    /\ HandlerOnly

\* the removal of lines 199-200 placed after the try statement
FinallyAfterTry ==
    /\ hpc = "finally"
    /\ tmp_file' = IF response.status = 500 THEN tmp_file ELSE "removed"
    /\ hpc' = IF response.status = 500 THEN "returned" ELSE "respond"
    /\ UNCHANGED response
    /\ HandlerOnly

\* lines 198-200, then the pending return of line 197 if there is one
Finally ==
    /\ hpc = "finally"
    /\ tmp_file' = IF tmp_file \in {"open", "closed"} THEN "removed"
                   ELSE tmp_file
    /\ hpc' = IF response.status = 500 THEN "returned" ELSE "respond"
    /\ UNCHANGED response
    /\ HandlerOnly

\* line 202
Respond ==
    /\ hpc = "respond"
    /\ response' = [status |-> 200, error |-> "", result |-> result]
    /\ hpc' = "returned"
    /\ UNCHANGED tmp_file
    /\ HandlerOnly

\* line 121 yields para
UploadYields == Len(doc) < MaxUpload

NextUpload ==
    \/ RejectMissing
    \/ RejectName
    \/ CreateTmp
    \/ SaveOk
    \/ SaveRaises
    \/ DocumentOpens
    \/ DocumentRaises
    \/ \E para \in TwiceInputs : UploadYields /\ SkipEmpty(para)
    \/ \E para \in TwiceInputs : UploadYields /\ Sentinel(para)
    \/ \E para \in TwiceInputs : UploadYields /\ RenderRaises(para)
    \/ \E para \in TwiceInputs : UploadYields /\ SkipBlank(para)
    \/ \E para \in TwiceInputs : UploadYields /\ ListItem(para)
    \/ \E para \in TwiceInputs : UploadYields /\ PlainPara(para)
    \/ \E para \in TwiceInputs : UploadYields /\ FaqItem(para)
    \/ \E para \in TwiceInputs : UploadYields /\ Unrouted(para)
    \/ EndOfStream
    \/ PairQuestion
    \/ PairAnswer
    \/ Return
    \/ ConversionReturns
    \/ ConversionRaises
    \/ Except
    \/ Finally
    \/ Respond

SpecUpload == InitUpload /\ [][NextUpload]_vars

(***************************************************************************)
(* The document read as the claims read it: markers, the sections they     *)
(* delimit, and the paragraphs that contribute an element.                 *)
(***************************************************************************)
HEAD == 0
TEXT == 1
FAQ == 2

\* what the conversion makes of one paragraph
ParaInfo(para) ==
    [sentinel    |-> IsSentinelPara(para),
     contributes |-> /\ ~IsEmptyPara(para)
                     /\ ~IsSentinelPara(para)
                     /\ ~ParaRaises(para)
                     /\ para_to_html(para).html # <<>>,
     html        |-> IF ParaRaises(para) THEN <<>>
                     ELSE para_to_html(para).html,
     type        |-> IF ParaRaises(para) THEN "none"
                     ELSE para_to_html(para).list_type]

RECURSIVE TableOf(_)
TableOf(S) ==
    IF S = {} THEN <<>>
    ELSE LET para == CHOOSE x \in S : TRUE
         IN  (para :> ParaInfo(para)) @@ TableOf(S \ {para})

\* ParaInfo of every input paragraph, computed once
ParaTable == TableOf(ParaInputs \cup FaqParaInputs)

HtmlOf(para) == ParaTable[para].html
TypeOf(para) == ParaTable[para].type
IsMarker(para) == ParaTable[para].sentinel

\* a paragraph that is read as content and renders to a non-empty fragment
Contributes(para) == ParaTable[para].contributes

NumSentinels(d) == Cardinality({i \in 1..Len(d) : IsMarker(d[i])})

\* the paragraphs after the k-th sentinel and before the next one
RECURSIVE Segment(_, _)
Segment(d, k) ==
    IF d = <<>> THEN <<>>
    ELSE IF IsMarker(Head(d))
    THEN (IF k = 0 THEN <<>> ELSE Segment(Tail(d), k - 1))
    ELSE (IF k = 0 THEN <<Head(d)>> ELSE <<>>) \o Segment(Tail(d), k)

\* everything after the k-th sentinel, later sentinels included
RECURSIVE After(_, _)
After(d, k) ==
    IF k = 0 \/ d = <<>> THEN d
    ELSE After(Tail(d), IF IsMarker(Head(d)) THEN k - 1 ELSE k)

Htmls(ps) == [i \in 1..Len(ps) |-> HtmlOf(ps[i])]

IsListPara(para) == Contributes(para) /\ TypeOf(para) # "none"
IsPlainPara(para) == Contributes(para) /\ TypeOf(para) = "none"

\* the paragraphs routed to the list accumulator, in document order
ListRouted(d) == SelectSeq(Segment(d, HEAD) \o Segment(d, TEXT), IsListPara)

\* the last paragraph fetched by the step
Fetched == doc'[Len(doc')]

FetchStep == pc = "loop" /\ doc' # doc

(***************************************************************************)
(* Section progression                                                     *)
(***************************************************************************)
\* C1: the section state changes only when a sentinel paragraph is
\* processed, and then by exactly one step (HEAD to TEXT, TEXT to FAQ);
\* every other step leaves it unchanged, so it never regresses.
C1_SectionAdvance ==
    [][IF FetchStep /\ IsMarker(Fetched)
       THEN /\ current_section' = current_section + 1
            /\ current_section = HEAD => current_section' = TEXT
            /\ current_section = TEXT => current_section' = FAQ
       ELSE current_section' = current_section]_vars

\* C1 witness: two sentinels have moved the state to FAQ in a document that
\* also holds paragraphs that are not sentinels
C1_Witness ==
    /\ current_section = FAQ
    /\ \E i \in 1..Len(doc) : Contributes(doc[i])
    /\ \E i \in 1..Len(doc) : IsEmptyPara(doc[i])

\* C2: the section state is always HEAD, TEXT or FAQ, and a sentinel
\* processed in FAQ leaves the state, the head output, the text output and
\* the FAQ items unchanged.
C2_SentinelInFaqNoEffect ==
    [][/\ current_section' \in {HEAD, TEXT, FAQ}
       /\ (FetchStep /\ IsMarker(Fetched) /\ current_section = FAQ)
            => /\ current_section' = FAQ
               /\ sections' = sections]_vars

(***************************************************************************)
(* Sections [A, B, C, D] of a document with three sentinels                *)
(***************************************************************************)
\* a container element holding the items, as a flush emits it
Wrapped(items, t) == <<"<" \o t \o ">">> \o Join(items) \o <<"</" \o t \o ">">>

\* the length of the longest prefix of es made of list paragraphs of type t
RECURSIVE RunLength(_, _)
RunLength(es, t) ==
    IF es # <<>> /\ IsListPara(Head(es).para) /\ TypeOf(Head(es).para) = t
    THEN 1 + RunLength(Tail(es), t)
    ELSE 0

\* The text elements of a fully flushed stream of contributing paragraphs,
\* each tagged with the section it was read in: every maximal run of list
\* paragraphs of one type is one container; a plain paragraph is an element
\* when it was read in TEXT and only ends the run when it was read in HEAD.
RECURSIVE Grouped(_)
Grouped(es) ==
    IF es = <<>> THEN <<>>
    ELSE IF IsListPara(Head(es).para)
    THEN LET t == TypeOf(Head(es).para)
             n == RunLength(es, t)
         IN  <<Wrapped([i \in 1..n |-> HtmlOf(es[i].para)], t)>>
             \o Grouped(SubSeq(es, n + 1, Len(es)))
    ELSE (IF Head(es).section = TEXT THEN <<HtmlOf(Head(es).para)>> ELSE <<>>)
         \o Grouped(Tail(es))

Tagged(ps, k) == [i \in 1..Len(ps) |-> [para |-> ps[i], section |-> k]]

SectionA == SelectSeq(Segment(doc, 0), Contributes)
SectionB == SelectSeq(Segment(doc, 1), Contributes)
SectionC == SelectSeq(Segment(doc, 2), Contributes)
SectionD == SelectSeq(After(doc, 3), Contributes)

\* C3 as stated: with three sentinels the head is built from all of A, the
\* text from B alone and the FAQ items from C alone.
C3_HeadATextB ==
    (pc = "done" /\ NumSentinels(doc) >= 3) =>
        /\ result.head = Join(Htmls(SectionA))
        /\ result.text = Join(Grouped(Tagged(SectionB, TEXT)))
        /\ sections[2] = [i \in 1..Len(SectionC) |-> FaqItemOf(SectionC[i])]

\* C3 amended: with three or more sentinels the head is built from the
\* paragraphs of A that are not list items, the text from the list items of
\* A followed by B, and the FAQ items from C alone; nothing after the third
\* sentinel contributes.
C3_ThreeSentinels ==
    (pc = "done" /\ NumSentinels(doc) >= 3) =>
        /\ result.head = Join(Htmls(SelectSeq(SectionA, IsPlainPara)))
        /\ result.text =
               Join(Grouped(Tagged(SectionA, HEAD) \o Tagged(SectionB, TEXT)))
        /\ sections[2] = [i \in 1..Len(SectionC) |-> FaqItemOf(SectionC[i])]

\* C3 witness: a list item in A, three sentinels and a paragraph in D
C3_Witness ==
    /\ pc = "done"
    /\ NumSentinels(doc) = 3
    /\ \E i \in 1..Len(SectionA) : IsListPara(SectionA[i])
    /\ SectionD # <<>>
    /\ result.text # <<>>

(***************************************************************************)
(* The list buffer                                                         *)
(***************************************************************************)
\* C4: a non-empty list buffer has list type ul or ol and holds the most
\* recent list paragraphs, all of that type; every element of the text
\* output is a paragraph or a ul/ol container, never bare list items.
C4_BufferSingleType ==
    LET L == ListRouted(doc)
        n == Len(list_buffer)
    IN  /\ n > 0 =>
              /\ list_type \in {"ul", "ol"}
              /\ n <= Len(L)
              /\ \A i \in 1..n :
                     /\ list_buffer[i] = HtmlOf(L[Len(L) - n + i])
                     /\ TypeOf(L[Len(L) - n + i]) = list_type
        /\ \A j \in 1..Len(sections[1]) :
               Head(sections[1][j]) \in {"<p>", "<ul>", "<ol>"}

\* C4 witness: a buffer of two items after a list of the other type was
\* flushed
C4_Witness ==
    /\ Len(list_buffer) = 2
    /\ list_type = "ol"
    /\ \E j \in 1..Len(sections[1]) : Head(sections[1][j]) = "<ul>"

\* the items inside the containers of the text output
FlushedItems ==
    Join([j \in 1..Len(sections[1]) |->
            IF Head(sections[1][j]) \in {"<ul>", "<ol>"}
            THEN SubSeq(sections[1][j], 2, Len(sections[1][j]) - 1)
            ELSE <<>>])

\* C5: at the end of the paragraph stream, in whatever section state, every
\* list paragraph that entered the list buffer is in the text output inside
\* a container.
C5_NoDanglingList ==
    pc \in {"pair", "done"} => FlushedItems = Join(Htmls(ListRouted(doc)))

\* the document without one leading sentinel
Body == IF doc # <<>> /\ IsMarker(doc[1]) THEN Tail(doc) ELSE doc

\* C6: N >= 1 unordered list paragraphs followed by M >= 1 ordered ones,
\* read in HEAD or TEXT, give a text output of exactly two containers: a ul
\* of the N items, then an ol of the M items.
C6_TwoLists ==
    LET E == SelectSeq(Body, Contributes)
    IN  \A n \in 1..(Len(E) - 1) :
            ( /\ pc = "done"
              /\ NumSentinels(Body) = 0
              /\ \A i \in 1..n : TypeOf(E[i]) = "ul"
              /\ \A i \in (n + 1)..Len(E) : TypeOf(E[i]) = "ol" )
            => sections[1] =
                   << Wrapped(Htmls(SubSeq(E, 1, n)), "ul"),
                      Wrapped(Htmls(SubSeq(E, n + 1, Len(E))), "ol") >>

(***************************************************************************)
(* FAQ pairing                                                             *)
(***************************************************************************)
IsQuestion(item) == item.type = "question"

\* the positions of the question items, in order
QuestionPositions(items) ==
    LET RECURSIVE From(_)
        From(i) == IF i > Len(items) THEN <<>>
                   ELSE (IF IsQuestion(items[i]) THEN <<i>> ELSE <<>>)
                        \o From(i + 1)
    IN  From(1)

\* C7: the questions of the returned pairs are the html of the
\* question-tagged items, in order: one pair per question and no other pair.
C7_OnePairPerQuestion ==
    pc = "done" =>
        LET questions == SelectSeq(sections[2], IsQuestion)
        IN  [i \in 1..Len(result.faq) |-> result.faq[i].question]
                = [i \in 1..Len(questions) |-> questions[i].html]

\* C7 witness: five items, a leading answer, two questions in a row and a
\* question at the end, paired into three pairs
C7_Witness ==
    /\ pc = "done"
    /\ Len(sections[2]) = 5
    /\ ~IsQuestion(sections[2][1])
    /\ IsQuestion(sections[2][2]) /\ IsQuestion(sections[2][3])
    /\ IsQuestion(sections[2][5])
    /\ Len(result.faq) = 3

\* C8: the answer of the pair of each question is the html of the item
\* right after the question when that item is an answer, and empty
\* otherwise; answers without a pending question add no pair and the
\* pairing always returns.
C8_AnswerFollowsQuestion ==
    pc = "done" =>
        LET items == sections[2]
            at == QuestionPositions(items)
        IN  /\ Len(result.faq) = Len(at)
            /\ \A j \in 1..Len(at) :
                   result.faq[j].answer =
                       IF at[j] < Len(items) /\ ~IsQuestion(items[at[j] + 1])
                       THEN items[at[j] + 1].html
                       ELSE <<>>

FaqQ(c) == FaqItemOf(MkPara(<<MkRun(<<c>>, "true")>>, StyleNormal))
FaqA(c) == FaqItemOf(MkPara(<<MkRun(<<c>>, "false")>>, StyleNormal))

\* C8 witness: [Q1, A1, Q2, Q3, A3] paired as [(Q1,A1), (Q2,""), (Q3,A3)]
C8_Witness ==
    /\ pc = "done"
    /\ sections[2] = <<FaqQ("q"), FaqA("a"), FaqQ("r"), FaqQ("s"), FaqA("b")>>
    /\ result.faq = << [question |-> FaqQ("q").html, answer |-> FaqA("a").html],
                       [question |-> FaqQ("r").html, answer |-> <<>>],
                       [question |-> FaqQ("s").html, answer |-> FaqA("b").html] >>

(***************************************************************************)
(* Routing of list items read in HEAD, and FAQ tagging                     *)
(***************************************************************************)
\* the kind of a paragraph of a document that was converted to the end
KindOf(para) ==
    IF IsMarker(para) THEN "sentinel"
    ELSE IF IsListPara(para) THEN TypeOf(para)
    ELSE "plain"

\* C9: the head output holds only the paragraphs of HEAD that are not list
\* items; list items read in HEAD right before the first sentinel and list
\* items of the same type read right after it come out as one container of
\* the text output.
C9_HeadListsMergeIntoText ==
    /\ sections[0] = Htmls(SelectSeq(SelectSeq(Segment(doc, 0), Contributes),
                                     IsPlainPara))
    /\ pc \in {"pair", "done"} =>
         LET E == SelectSeq(doc, LAMBDA p : IsMarker(p) \/ Contributes(p))
             n == Len(E)
         IN  \A s \in 2..(n - 1) :
               ( /\ IsMarker(E[s])
                 /\ \A i \in 1..(s - 1) : ~IsMarker(E[i])
                 /\ KindOf(E[s - 1]) \in {"ul", "ol"}
                 /\ KindOf(E[s + 1]) = KindOf(E[s - 1]) )
               => LET t == KindOf(E[s - 1])
                      \* the list items of type t that end right before s
                      a == CHOOSE k \in 1..(s - 1) :
                             /\ \A i \in (s - k)..(s - 1) : KindOf(E[i]) = t
                             /\ s - k > 1 => KindOf(E[s - k - 1]) # t
                      \* the list items of type t that start right after s
                      b == CHOOSE k \in 1..(n - s) :
                             /\ \A i \in (s + 1)..(s + k) : KindOf(E[i]) = t
                             /\ s + k < n => KindOf(E[s + k + 1]) # t
                  IN  \E j \in 1..Len(sections[1]) :
                        sections[1][j] =
                            Wrapped(Htmls(SubSeq(E, s - a, s - 1)
                                          \o SubSeq(E, s + 1, s + b)), t)

\* C9 witness: a list item in HEAD, the sentinel, a list item of the same
\* type in TEXT, converted to the end
C9_Witness ==
    /\ pc = "done"
    /\ doc = <<ParaUl, ParaSentinel, ParaUl>>
    /\ Len(sections[1]) = 1
    /\ sections[0] = <<>>

\* a run with text that is bold
HasBoldText(para) ==
    \E i \in 1..Len(para.runs) :
        Strip(para.runs[i].text) # <<>> /\ para.runs[i].bold = "true"

\* C10: the FAQ items are the paragraphs read in FAQ that render to a
\* non-empty fragment, in order, each tagged question exactly when one of
\* its runs with non-empty trimmed text is bold, and answer otherwise.
C10_FaqTagging ==
    LET C == SelectSeq(Segment(doc, 2), Contributes)
    IN  sections[2] =
            [i \in 1..Len(C) |->
                [type |-> IF HasBoldText(C[i]) THEN "question" ELSE "answer",
                 html |-> HtmlOf(C[i])]]

\* C10 witness: FAQ read a blank paragraph, a bold one and one whose only
\* bold run has no text
C10_Witness ==
    /\ current_section = FAQ
    /\ After(doc, 2) = <<ParaBlank, ParaBold, ParaMixed>>
    /\ Len(sections[2]) = 2
    /\ sections[2][1].type = "question"
    /\ sections[2][2].type = "answer"


(***************************************************************************)
(* Rendering one paragraph, one run, and classifying list paragraphs       *)
(***************************************************************************)
AllRunsBlank(para) ==
    \A i \in 1..Len(para.runs) : Strip(para.runs[i].text) = <<>>

\* C11: a paragraph all of whose runs have text that is empty after
\* trimming, whatever the attributes of the runs (hyperlink markup
\* included), renders as the empty fragment with list type none.
C11_BlankParagraphRendersEmpty ==
    (ret.kind # "pending" /\ AllRunsBlank(arg))
        => ret = Returned([html |-> <<>>, list_type |-> "none"])

\* hyperlink markup whose relationship id gives no target URL
Unresolved(run) ==
    \/ run.link \in {"norid", "unknown"}
    \/ run.link = "resolved" /\ run.target = <<>>

WithoutLink(run) == [run EXCEPT !.link = "nolink", !.target = <<>>]

\* C12: a run with hyperlink markup whose relationship id is absent or not
\* known to the resolver does not make run_to_html fail: the call returns
\* what it returns for the same run without hyperlink markup.
C12_UnresolvedLinkFallsThrough ==
    (ret.kind # "pending" /\ Unresolved(arg))
        => ret = Returned(run_to_html(WithoutLink(arg)))

\* the run reaches the span of line 58
OnSpanPath(run) ==
    /\ ~StartsWith(Strip(run.text), <<"<", "i", "m", "g">>)
    /\ ~StartsWith(Strip(run.text), <<"<", "i", "f", "r", "a", "m", "e">>)
    /\ run.link \in {"nolink", "norid"} \/ (run.link = "resolved" /\ run.target = <<>>)
    /\ Strip(run.text) # <<>>

\* what one character of the text becomes in the span
Entity(c) ==
    CASE c = "&" -> <<"&", "a", "m", "p", ";">>
      [] c = "<" -> <<"&", "l", "t", ";">>
      [] c = ">" -> <<"&", "g", "t", ";">>
      [] OTHER   -> <<c>>

Entities(text) == Join([i \in 1..Len(text) |-> Entity(text[i])])

\* the span's content: each character its entity, and where the text has a
\* newline its non-blank lines trimmed and separated by <br>
ExpectedBody(text) ==
    IF \E i \in 1..Len(text) : text[i] = "\n"
    THEN LET lines == SelectSeq(Split(text, "\n"), NonBlank)
         IN  JoinWith([i \in 1..Len(lines) |-> Entities(Strip(lines[i]))],
                      <<"<br>">>)
    ELSE Entities(text)

\* the tokens between the opening tag of the span and its closing tag
SpanBody(span) ==
    LET open == CHOOSE i \in 1..Len(span) : span[i] = "\">"
    IN  SubSeq(span, open + 1, Len(span) - 1)

\* C13: in the span of a formatted run every '&', '<' and '>' of the text
\* is replaced by exactly &amp;, &lt; and &gt; (the '&' of an entity is not
\* escaped again), so that no '<' or '>' of the text is left in the span's
\* content, and the style begins with font-weight:bold; exactly for a bold
\* run.
C13_EscapedOnce ==
    (ret.kind # "pending" /\ OnSpanPath(arg)) =>
        /\ ret.kind = "returned"
        /\ ret.value[1] = "<span style=\""
        /\ ret.value[Len(ret.value)] = "</span>"
        /\ (ret.value[2] = "font-weight:bold;") <=> (arg.bold = "true")
        /\ SpanBody(ret.value) = ExpectedBody(arg.text)
        /\ \A j \in 1..Len(SpanBody(ret.value)) :
               SpanBody(ret.value)[j] \notin {"<", ">"}

\* the run with text 'a & b < c' and bold set has been rendered
C13_Witness ==
    /\ arg = MkRun(ExampleText, "true")
    /\ ret = Returned(<<"<span style=\"", "font-weight:bold;", "\">",
                        "a", " ", "&", "a", "m", "p", ";", " ", "b", " ",
                        "&", "l", "t", ";", " ", "c", "</span>">>)

BeginsWithRawTag(text) ==
    \/ Len(text) >= 4 /\ SubSeq(text, 1, 4) = <<"<", "i", "m", "g">>
    \/ Len(text) >= 7 /\ SubSeq(text, 1, 7) = <<"<", "i", "f", "r", "a", "m", "e">>

\* C14: a run whose trimmed text begins with <img or <iframe is returned
\* as exactly that trimmed text, whatever its bold, italic, font, colour
\* and hyperlink attributes.
C14_RawMarkupFirst ==
    (ret.kind # "pending" /\ BeginsWithRawTag(Strip(arg.text)))
        => ret = Returned(Strip(arg.text))

\* an <img run that is bold, coloured and carries a resolved hyperlink
\* has been rendered
C14_Witness ==
    /\ ret.kind = "returned"
    /\ arg.text = ImgText
    /\ arg.bold = "true"
    /\ arg.color # <<>>
    /\ arg.link = "resolved"
    /\ arg.target # <<>>

\* the classification of section 4.2 read as a precedence list
Precedence(para) ==
    LET trimmed == Strip(ParaText(para))
        lowered == Lower(para.style)
    IN  CASE trimmed # <<>> /\ trimmed[1] \in BulletSymbols -> "ul"
          [] OTHER ->
             CASE Contains(lowered, <<"b", "u", "l", "l", "e", "t">>) -> "ul"
               [] OTHER ->
                  CASE Contains(lowered, <<"n", "u", "m", "b", "e", "r">>) -> "ol"
                    [] OTHER ->
                       CASE para.numPr # "none" /\ para.ilvl <= 0 -> "ol"
                         [] para.numPr # "none" /\ para.ilvl > 0 -> "ul"
                         [] OTHER -> "none"

\* C15: detect_list_type follows the precedence glyph, style 'bullet',
\* style 'number', numbering metadata (ordered at level 0, unordered above),
\* and otherwise reports no list.
C15_Precedence ==
    ret.kind # "pending" => ret = Returned(Precedence(arg))


(***************************************************************************)
(* Converting the same document again                                      *)
(***************************************************************************)
\* C16: a conversion of the document of the first conversion, directly
\* after it or after a conversion of another document, reads the same
\* paragraphs and ends as the first did: the same Result, or a raise.
C16_SameResultAgain ==
    (call = "repeat" /\ pc \in {"done", "raised"})
        => (doc = first_doc /\ Outcome = first_out)

\* the first document has been converted a second time, after a
\* conversion of another document, and its Result has a head and a text
C16_Witness ==
    /\ call = "repeat"
    /\ calls = 2
    /\ pc = "done"
    /\ result.head # <<>>
    /\ result.text # <<>>


(***************************************************************************)
(* The upload route                                                        *)
(***************************************************************************)
\* the request names a file whose name has .docx as its last five characters
NameEndsInDocx ==
    LET f == request.filename
    IN  /\ request.has_file
        /\ Len(f) >= 5
        /\ <<f[Len(f) - 4], f[Len(f) - 3], f[Len(f) - 2], f[Len(f) - 1],
             f[Len(f)]>> = <<".", "d", "o", "c", "x">>

\* C17: a request has exactly one outcome: 400 when the part 'file' is
\* missing or its filename does not end in .docx; 500 with a message when
\* saving or the conversion raised; otherwise 200 with the Result of the
\* conversion.  A response that is not the 200 carries no Result, partial
\* or whole.
C17_OneOutcome ==
    hpc = "returned" =>
        /\ response.status \in {200, 400, 500}
        /\ (response.status = 400) <=> ~NameEndsInDocx
        /\ ~request.has_file => response.error = "File missing"
        /\ (request.has_file /\ ~NameEndsInDocx)
               => response.error = "Only .docx allowed"
        /\ (response.status = 500) <=> (NameEndsInDocx /\ pc # "done")
        /\ (response.status = 200) <=> (NameEndsInDocx /\ pc = "done")
        /\ response.status = 200
               => (response.result = result /\ response.error = "")
        /\ response.status # 200
               => (response.result = NoResult /\ response.error # "")

\* the conversion raised after it had produced part of the text, and the
\* handler has returned
C17_Witness ==
    /\ hpc = "returned"
    /\ pc = "raised"
    /\ sections[1] # <<>>
    /\ sections[0] # <<>>

\* C18: when the handler returns, the temporary file it created has been
\* removed, whether the conversion returned, saving raised or the
\* conversion raised; on the two 400 paths no temporary file was created.
C18_TmpFileRemoved ==
    hpc = "returned" =>
        /\ response.status = 400 => tmp_file = "none"
        /\ response.status # 400 => tmp_file = "removed"

\* saving raised and the handler has returned
C18_Witness ==
    /\ hpc = "returned"
    /\ response.status = 500
    /\ pc = "none"


(***************************************************************************)
(* Document order, and the outputs once the state is FAQ                   *)
(***************************************************************************)
IsContainerTag(token) == token \in {"<ul>", "</ul>", "<ol>", "</ol>"}

NotContainerTag(token) == ~IsContainerTag(token)

\* the fragments of the elements in their order, the containers opened
Unwrapped(elements) == SelectSeq(Join(elements), NotContainerTag)

\* the fragments that text holds or will hold, in their order
TextStream == Unwrapped(sections[TEXT]) \o Join(list_buffer)

\* a step that fetches a paragraph puts its fragment last: a plain paragraph
\* read in HEAD last in head, a list item read in HEAD and every
\* contributing paragraph read in TEXT last in the text stream; nothing
\* else is added, removed or reordered
AppendsInOrder ==
    LET fragment == IF Contributes(Fetched) THEN HtmlOf(Fetched) ELSE <<>>
        to_head == current_section = HEAD /\ IsPlainPara(Fetched)
        to_text == \/ current_section = HEAD /\ IsListPara(Fetched)
                   \/ current_section = TEXT /\ Contributes(Fetched)
    IN  /\ sections'[HEAD]
               = sections[HEAD] \o (IF to_head THEN <<fragment>> ELSE <<>>)
        /\ TextStream' = TextStream \o (IF to_text THEN fragment ELSE <<>>)

\* C19: a paragraph that is not a list item, processed in HEAD or TEXT,
\* first flushes the buffered list items as one container into the text
\* output and empties the buffer, and is then appended to the output of the
\* current state only; the elements of head and of text stand in the order
\* of their paragraphs in the document, a list before the TEXT paragraphs
\* that came after its items.
C19_FlushThenAppend ==
    [][/\ (FetchStep /\ current_section <= TEXT /\ IsPlainPara(Fetched)) =>
              LET flushed == IF list_buffer # <<>>
                             THEN <<Wrapped(list_buffer, list_type)>>
                             ELSE <<>>
                  here(k) == IF current_section = k THEN <<HtmlOf(Fetched)>>
                             ELSE <<>>
              IN  /\ list_buffer' = <<>>
                  /\ sections'[TEXT] = sections[TEXT] \o flushed \o here(TEXT)
                  /\ sections'[HEAD] = sections[HEAD] \o here(HEAD)
                  /\ sections'[FAQ] = sections[FAQ]
       /\ FetchStep => AppendsInOrder
      ]_vars

\* a TEXT paragraph has followed buffered list items: the list stands in
\* text before the paragraph, which is the last element
C19_Witness ==
    /\ pc = "loop"
    /\ current_section = TEXT
    /\ Len(doc) >= 3
    /\ IsListPara(doc[Len(doc) - 1])
    /\ IsPlainPara(doc[Len(doc)])
    /\ Len(sections[TEXT]) >= 2
    /\ sections[TEXT][Len(sections[TEXT])] = HtmlOf(doc[Len(doc)])
    /\ IsContainerTag(sections[TEXT][Len(sections[TEXT]) - 1][1])
    /\ list_buffer = <<>>

\* C20: once the state has reached FAQ the list buffer is empty and no step
\* changes head, text or the list buffer; the sentinel that leaves TEXT
\* flushes the buffered list into text and empties the buffer.
C20_FaqFreezesHeadAndText ==
    [][/\ current_section >= FAQ =>
              /\ list_buffer = <<>>
              /\ list_buffer' = <<>>
              /\ sections'[HEAD] = sections[HEAD]
              /\ sections'[TEXT] = sections[TEXT]
       /\ (FetchStep /\ IsMarker(Fetched) /\ current_section = TEXT) =>
              /\ list_buffer' = <<>>
              /\ sections'[TEXT] = sections[TEXT]
                     \o (IF list_buffer # <<>>
                         THEN <<Wrapped(list_buffer, list_type)>>
                         ELSE <<>>)
      ]_vars

\* the sentinel that left TEXT came directly after a list item, and a
\* paragraph has been tagged in FAQ since
C20_Witness ==
    /\ current_section = FAQ
    /\ sections[TEXT] # <<>>
    /\ sections[FAQ] # <<>>
    /\ \E i \in 2..Len(doc) - 1 :
           /\ IsMarker(doc[i])
           /\ IsListPara(doc[i - 1])
           /\ NumSentinels(SubSeq(doc, 1, i)) = 2

=============================================================================
